---- MODULE Spec2Model ----
(***************************************************************************)
(* Model of subliminal/providers/bierdopje.py: the BierDopje subtitle      *)
(* provider (transport, show-id resolver with its cache, query engine,     *)
(* match scorer and fetcher).                                              *)
(*                                                                         *)
(* Conventions.  An optional Python value is a sequence of length <= 1:    *)
(* None is <<>> and the value x is <<x>>.  A Python string is a sequence   *)
(* of one-character strings.  An operation yields a record whose field     *)
(* exc is "none" on a normal return and the exception's class otherwise.   *)
(***************************************************************************)
EXTENDS Integers, Sequences, FiniteSets, TLC

VARIABLES
    session,    \* self.session: None before initialize, else the context's id
    created,    \* number of requests.Session objects created so far
    closes,     \* closes[c]: number of close() calls on context c
    lifecycle,  \* the host's calls so far: "new", "open", "closed" or "misused"
    cache,      \* the cache region's entries for find_show_id
    returned,   \* per key, the value find_show_id returned and when its window began
    now,        \* the clock
    held,       \* the candidate object last passed to download_subtitle
    inp,        \* the scenario of an input-driven specification
    last        \* the last operation: its arguments, outcome and requests

vars == <<session, created, closes, lifecycle, cache, returned, now, held, inp, last>>

\* ---------------------------------------------------------------- values
None == <<>>

Some(x) == <<x>>

\* Python truthiness of an optional int: None and 0 are falsy.
TruthyInt(o) == o # None /\ o[1] # 0

\* Python truthiness of an optional string: None and "" are falsy.
TruthyStr(o) == o # None /\ Len(o[1]) > 0

\* ---------------------------------------------------------------- strings
LowerChar(c) ==
    CASE c = "L" -> "l"
      [] c = "O" -> "o"
      [] c = "S" -> "s"
      [] c = "T" -> "t"
      [] c = "G" -> "g"
      [] OTHER -> c

\* unicode.lower()
Lower(s) == [i \in 1..Len(s) |-> LowerChar(s[i])]

DigitChar(d) ==
    CASE d = 0 -> "0" [] d = 1 -> "1" [] d = 2 -> "2" [] d = 3 -> "3"
      [] d = 4 -> "4" [] d = 5 -> "5" [] d = 6 -> "6" [] d = 7 -> "7"
      [] d = 8 -> "8" [] OTHER -> "9"

DigitVal(c) ==
    CASE c = "0" -> 0 [] c = "1" -> 1 [] c = "2" -> 2 [] c = "3" -> 3
      [] c = "4" -> 4 [] c = "5" -> 5 [] c = "6" -> 6 [] c = "7" -> 7
      [] c = "8" -> 8 [] OTHER -> 9

RECURSIVE Digits(_)
\* '%d' % n for n >= 0
Digits(n) == IF n < 10 THEN <<DigitChar(n)>>
             ELSE Append(Digits(n \div 10), DigitChar(n % 10))

RECURSIVE ParseInt(_)
\* int(text) for a string of decimal digits
ParseInt(s) == IF Len(s) = 0 THEN 0
               ELSE 10 * ParseInt(SubSeq(s, 1, Len(s) - 1)) + DigitVal(s[Len(s)])

\* '%s (%d)' % (series, year)
FormatSeriesYear(series, year) == series \o <<" ", "(">> \o Digits(year) \o <<")">>

\* babelfish Language.alpha2
Alpha2(language) == IF language = "eng" THEN "en" ELSE "nl"

\* ---------------------------------------------------------------- transport
\* A response of the remote service: a timeout, or a status code and a body.
\* An API body is malformed (wf = FALSE) or a document with an optional
\* error_msg node, a status flag and a list of result entries.
Document(err, status, results) ==
    [wf |-> TRUE, error_msg |-> err, status |-> status, results |-> results]

MalformedBody == [wf |-> FALSE, error_msg |-> None, status |-> "false", results |-> <<>>]

Response(status, body) == [timeout |-> FALSE, status |-> status, body |-> body]

TimeoutResponse == [timeout |-> TRUE, status |-> 0, body |-> MalformedBody]

\* One network request: the context it went through, whether that context
\* had already been closed, and the URL.
Request(sess, cl, url) == [ctx |-> sess[1], closed |-> cl[sess[1]] > 0, url |-> url]

\* Mutant: the generic status test comes first, so a 429 is a ProviderError.
GetStatusFirst(sess, cl, url, resp) ==
    IF sess = None
    THEN [exc |-> "AttributeError", root |-> MalformedBody, reqs |-> <<>>]
    ELSE LET rq == <<Request(sess, cl, url)>>
         IN  IF resp.timeout
             THEN [exc |-> "ProviderNotAvailable", root |-> MalformedBody, reqs |-> rq]
             ELSE IF resp.status # 200
             THEN [exc |-> "ProviderError", root |-> MalformedBody, reqs |-> rq]
             ELSE IF ~resp.body.wf
             THEN [exc |-> "ParseError", root |-> MalformedBody, reqs |-> rq]
             ELSE IF resp.body.error_msg # None
             THEN [exc |-> "ProviderError", root |-> MalformedBody, reqs |-> rq]
             ELSE [exc |-> "none", root |-> resp.body, reqs |-> rq]

\* BierDopjeProvider.get: no session attribute before initialize; then the
\* timeout, the status code, the XML parse and the embedded error message.
Get(sess, cl, url, resp) ==
    IF sess = None
    THEN [exc |-> "AttributeError", root |-> MalformedBody, reqs |-> <<>>]
    ELSE LET rq == <<Request(sess, cl, url)>>
         IN  IF resp.timeout
             THEN [exc |-> "ProviderNotAvailable", root |-> MalformedBody, reqs |-> rq]
             ELSE IF resp.status = 429
             THEN [exc |-> "ProviderNotAvailable", root |-> MalformedBody, reqs |-> rq]
             ELSE IF resp.status # 200
             THEN [exc |-> "ProviderError", root |-> MalformedBody, reqs |-> rq]
             ELSE IF ~resp.body.wf
             THEN [exc |-> "ParseError", root |-> MalformedBody, reqs |-> rq]
             ELSE IF resp.body.error_msg # None
             THEN [exc |-> "ProviderError", root |-> MalformedBody, reqs |-> rq]
             ELSE [exc |-> "none", root |-> resp.body, reqs |-> rq]

\* ---------------------------------------------------------------- resolver
\* A result entry of FindShowByName.
ShowResult(name, id) == [showname |-> name, showid |-> id]

RECURSIVE FirstMatch(_, _, _)
\* for result in results: if result.showname.lower() == target: return i
\* (0 when the loop ends without a match)
FirstMatch(results, target, i) ==
    IF i > Len(results) THEN 0
    ELSE IF Lower(results[i].showname) = target THEN i
    ELSE FirstMatch(results, target, i + 1)

\* Mutant: the bare-name loop runs before the year-qualified loop.
FindShowIdBodyNameFirst(sess, cl, series, year, resp) ==
    LET g == Get(sess, cl, [api |-> "FindShowByName", series |-> series], resp)
        results == g.root.results
        byYear == IF year # None
                  THEN FirstMatch(results, FormatSeriesYear(series, year[1]), 1)
                  ELSE 0
        byName == FirstMatch(results, series, 1)
    IN  IF g.exc # "none" THEN [exc |-> g.exc, val |-> None, reqs |-> g.reqs]
        ELSE IF g.root.status = "false"
        THEN [exc |-> "none", val |-> None, reqs |-> g.reqs]
        ELSE IF byName # 0
        THEN [exc |-> "none", val |-> Some(ParseInt(results[byName].showid)), reqs |-> g.reqs]
        ELSE IF byYear # 0
        THEN [exc |-> "none", val |-> Some(ParseInt(results[byYear].showid)), reqs |-> g.reqs]
        ELSE IF Len(results) = 0
        THEN [exc |-> "AttributeError", val |-> None, reqs |-> g.reqs]
        ELSE [exc |-> "none", val |-> Some(ParseInt(results[1].showid)), reqs |-> g.reqs]

\* The body of find_show_id (what runs on a cache miss).
FindShowIdBody(sess, cl, series, year, resp) ==
    LET g == Get(sess, cl, [api |-> "FindShowByName", series |-> series], resp)
        results == g.root.results
        byYear == IF year # None
                  THEN FirstMatch(results, FormatSeriesYear(series, year[1]), 1)
                  ELSE 0
        byName == FirstMatch(results, series, 1)
    IN  IF g.exc # "none" THEN [exc |-> g.exc, val |-> None, reqs |-> g.reqs]
        ELSE IF g.root.status = "false"
        THEN [exc |-> "none", val |-> None, reqs |-> g.reqs]
        ELSE IF byYear # 0
        THEN [exc |-> "none", val |-> Some(ParseInt(results[byYear].showid)), reqs |-> g.reqs]
        ELSE IF byName # 0
        THEN [exc |-> "none", val |-> Some(ParseInt(results[byName].showid)), reqs |-> g.reqs]
        ELSE IF Len(results) = 0
        THEN [exc |-> "AttributeError", val |-> None, reqs |-> g.reqs]
        ELSE [exc |-> "none", val |-> Some(ParseInt(results[1].showid)), reqs |-> g.reqs]

\* SHOW_EXPIRATION_TIME, in ticks of the model's clock.
ExpirationTime == 2

\* The key cache_on_arguments builds from the call's arguments.
CacheKey(series, year) == <<series, year>>

\* A stored entry is live while it is younger than the expiration time.
CacheHit(c, t, key) == key \in DOMAIN c /\ t - c[key].ct < ExpirationTime

CachePut(c, t, key, val) == (key :> [val |-> val, ct |-> t]) @@ c

\* Mutant: find_show_id without the cache_on_arguments decorator.
FindShowIdUndecorated(sess, cl, c, t, series, year, resp) ==
    LET b == FindShowIdBody(sess, cl, series, year, resp)
    IN  [exc |-> b.exc, val |-> b.val, reqs |-> b.reqs, cache |-> c, hit |-> FALSE]

\* find_show_id as decorated by region.cache_on_arguments: a live entry is
\* returned without running the body; otherwise the body runs and its
\* return value (None included) is stored; an exception stores nothing.
FindShowId(sess, cl, c, t, series, year, resp) ==
    LET key == CacheKey(series, year)
        b == FindShowIdBody(sess, cl, series, year, resp)
    IN  IF CacheHit(c, t, key)
        THEN [exc |-> "none", val |-> c[key].val, reqs |-> <<>>, cache |-> c, hit |-> TRUE]
        ELSE [exc |-> b.exc, val |-> b.val, reqs |-> b.reqs,
              cache |-> IF b.exc = "none" THEN CachePut(c, t, key, b.val) ELSE c,
              hit |-> FALSE]

\* ---------------------------------------------------------------- query engine
\* BierDopjeSubtitle.__init__; a new candidate has no content.
BierDopjeSubtitle(language, season, episode, tvdb_id, series, year, filename, download_link) ==
    [language |-> language, season |-> season, episode |-> episode,
     tvdb_id |-> tvdb_id, series |-> series, year |-> year,
     filename |-> filename, download_link |-> download_link, content |-> None]

\* The GetAllSubsFor URL built from params.
LookupUrl(showid, season, episode, language, istvdbid) ==
    [api |-> "GetAllSubsFor", showid |-> showid, season |-> season,
     episode |-> episode, language |-> Alpha2(language), istvdbid |-> istvdbid]

\* The tail of query: the lookup request and the parse of its entries.
QueryLookup(sess, cl, language, season, episode, tvdb_id, series, year, showid, istvdbid, lresp) ==
    LET g == Get(sess, cl, LookupUrl(showid, season, episode, language, istvdbid), lresp)
    IN  IF g.exc # "none" THEN [exc |-> g.exc, result |-> <<>>, reqs |-> g.reqs]
        ELSE IF g.root.status = "false"
        THEN [exc |-> "none", result |-> <<>>, reqs |-> g.reqs]
        ELSE [exc |-> "none",
              result |-> [i \in 1..Len(g.root.results) |->
                            BierDopjeSubtitle(language, season, episode, tvdb_id, series, year,
                                              g.root.results[i].filename,
                                              g.root.results[i].downloadlink)],
              reqs |-> g.reqs]

\* Mutant: the series branch is tested before the tvdb_id branch.
QuerySeriesFirst(sess, cl, c, t, language, season, episode, tvdb_id, series, year, fresp, lresp) ==
    IF series # None
    THEN LET f == FindShowId(sess, cl, c, t, Lower(series[1]), year, fresp)
             call == <<[series |-> Lower(series[1]), year |-> year, hit |-> f.hit,
                        exc |-> f.exc, val |-> f.val]>>
             q == QueryLookup(sess, cl, language, season, episode, tvdb_id, series, year,
                              f.val[1], "false", lresp)
         IN  IF f.exc # "none"
             THEN [exc |-> f.exc, result |-> <<>>, reqs |-> f.reqs, cache |-> f.cache,
                   resolver |-> call]
             ELSE IF f.val = None
             THEN [exc |-> "none", result |-> <<>>, reqs |-> f.reqs, cache |-> f.cache,
                   resolver |-> call]
             ELSE [exc |-> q.exc, result |-> q.result, reqs |-> f.reqs \o q.reqs,
                   cache |-> f.cache, resolver |-> call]
    ELSE IF tvdb_id # None
    THEN LET q == QueryLookup(sess, cl, language, season, episode, tvdb_id, series, year,
                              tvdb_id[1], "true", lresp)
         IN  [exc |-> q.exc, result |-> q.result, reqs |-> q.reqs, cache |-> c,
              resolver |-> <<>>]
    ELSE [exc |-> "ValueError", result |-> <<>>, reqs |-> <<>>, cache |-> c,
          resolver |-> <<>>]

\* Mutant: an unresolved show does not end the query; the lookup is issued
\* with the show id None.
QueryNoShortCircuit(sess, cl, c, t, language, season, episode, tvdb_id, series, year, fresp, lresp) ==
    IF tvdb_id # None
    THEN LET q == QueryLookup(sess, cl, language, season, episode, tvdb_id, series, year,
                              tvdb_id[1], "true", lresp)
         IN  [exc |-> q.exc, result |-> q.result, reqs |-> q.reqs, cache |-> c,
              resolver |-> <<>>]
    ELSE IF series # None
    THEN LET f == FindShowId(sess, cl, c, t, Lower(series[1]), year, fresp)
             call == <<[series |-> Lower(series[1]), year |-> year, hit |-> f.hit,
                        exc |-> f.exc, val |-> f.val]>>
             q == QueryLookup(sess, cl, language, season, episode, tvdb_id, series, year,
                              IF f.val = None THEN -1 ELSE f.val[1], "false", lresp)
         IN  IF f.exc # "none"
             THEN [exc |-> f.exc, result |-> <<>>, reqs |-> f.reqs, cache |-> f.cache,
                   resolver |-> call]
             ELSE [exc |-> q.exc, result |-> q.result, reqs |-> f.reqs \o q.reqs,
                   cache |-> f.cache, resolver |-> call]
    ELSE [exc |-> "ValueError", result |-> <<>>, reqs |-> <<>>, cache |-> c,
          resolver |-> <<>>]

\* Mutant: a call with neither tvdb_id nor series returns an empty list.
QueryEmptyOnMissing(sess, cl, c, t, language, season, episode, tvdb_id, series, year, fresp, lresp) ==
    IF tvdb_id # None
    THEN LET q == QueryLookup(sess, cl, language, season, episode, tvdb_id, series, year,
                              tvdb_id[1], "true", lresp)
         IN  [exc |-> q.exc, result |-> q.result, reqs |-> q.reqs, cache |-> c,
              resolver |-> <<>>]
    ELSE IF series # None
    THEN LET f == FindShowId(sess, cl, c, t, Lower(series[1]), year, fresp)
             call == <<[series |-> Lower(series[1]), year |-> year, hit |-> f.hit,
                        exc |-> f.exc, val |-> f.val]>>
             q == QueryLookup(sess, cl, language, season, episode, tvdb_id, series, year,
                              f.val[1], "false", lresp)
         IN  IF f.exc # "none"
             THEN [exc |-> f.exc, result |-> <<>>, reqs |-> f.reqs, cache |-> f.cache,
                   resolver |-> call]
             ELSE IF f.val = None
             THEN [exc |-> "none", result |-> <<>>, reqs |-> f.reqs, cache |-> f.cache,
                   resolver |-> call]
             ELSE [exc |-> q.exc, result |-> q.result, reqs |-> f.reqs \o q.reqs,
                   cache |-> f.cache, resolver |-> call]
    ELSE [exc |-> "none", result |-> <<>>, reqs |-> <<>>, cache |-> c,
          resolver |-> <<>>]

\* BierDopjeProvider.query.  resolver lists the find_show_id calls made.
Query(sess, cl, c, t, language, season, episode, tvdb_id, series, year, fresp, lresp) ==
    IF tvdb_id # None
    THEN LET q == QueryLookup(sess, cl, language, season, episode, tvdb_id, series, year,
                              tvdb_id[1], "true", lresp)
         IN  [exc |-> q.exc, result |-> q.result, reqs |-> q.reqs, cache |-> c,
              resolver |-> <<>>]
    ELSE IF series # None
    THEN LET f == FindShowId(sess, cl, c, t, Lower(series[1]), year, fresp)
             call == <<[series |-> Lower(series[1]), year |-> year, hit |-> f.hit,
                        exc |-> f.exc, val |-> f.val]>>
             q == QueryLookup(sess, cl, language, season, episode, tvdb_id, series, year,
                              f.val[1], "false", lresp)
         IN  IF f.exc # "none"
             THEN [exc |-> f.exc, result |-> <<>>, reqs |-> f.reqs, cache |-> f.cache,
                   resolver |-> call]
             ELSE IF f.val = None
             THEN [exc |-> "none", result |-> <<>>, reqs |-> f.reqs, cache |-> f.cache,
                   resolver |-> call]
             ELSE [exc |-> q.exc, result |-> q.result, reqs |-> f.reqs \o q.reqs,
                   cache |-> f.cache, resolver |-> call]
    ELSE [exc |-> "ValueError", result |-> <<>>, reqs |-> <<>>, cache |-> c,
          resolver |-> <<>>]

\* Mutant: a query's candidates are put in front of the earlier ones.
ListSubtitlesPrepend(acc, language, q) ==
    [exc |-> q.exc,
     result |-> IF q.exc = "none" THEN q.result \o acc.result ELSE <<>>,
     reqs |-> acc.reqs \o q.reqs,
     cache |-> q.cache,
     queries |-> Append(acc.queries,
                        [language |-> language, exc |-> q.exc, result |-> q.result,
                         reqs |-> q.reqs, resolver |-> q.resolver])]

\* The comprehension's state after the query q for language: its candidates
\* are appended, or its exception ends the call.
ListSubtitlesAppend(acc, language, q) ==
    [exc |-> q.exc,
     result |-> IF q.exc = "none" THEN acc.result \o q.result ELSE <<>>,
     reqs |-> acc.reqs \o q.reqs,
     cache |-> q.cache,
     queries |-> Append(acc.queries,
                        [language |-> language, exc |-> q.exc, result |-> q.result,
                         reqs |-> q.reqs, resolver |-> q.resolver])]

RECURSIVE ListSubtitlesFrom(_, _, _, _, _, _, _, _)
\* The comprehension of list_subtitles from the next language on: one query
\* per language in iteration order; an exception of a query ends it.
ListSubtitlesFrom(sess, cl, t, video, languages, fresps, lresps, acc) ==
    IF Len(acc.queries) >= Len(languages) \/ acc.exc # "none" THEN acc
    ELSE CHOOSE r \in
           {ListSubtitlesFrom(sess, cl, t, video, languages, fresps, lresps, a) :
              a \in {ListSubtitlesAppend(acc, languages[Len(acc.queries) + 1], q) :
                       q \in {Query(sess, cl, acc.cache, t, languages[Len(acc.queries) + 1],
                                     video.season, video.episode, video.tvdb_id,
                                     video.series, video.year,
                                     fresps[Len(acc.queries) + 1],
                                     lresps[Len(acc.queries) + 1])}}} : TRUE

\* BierDopjeProvider.list_subtitles
ListSubtitles(sess, cl, c, t, video, languages, fresps, lresps) ==
    ListSubtitlesFrom(sess, cl, t, video, languages, fresps, lresps,
                      [exc |-> "none", result |-> <<>>, reqs |-> <<>>, cache |-> c,
                       queries |-> <<>>])

\* ---------------------------------------------------------------- fetcher
\* bytes.decode(encoding, 'replace') for the two encodings of the model:
\* a byte the encoding cannot map becomes the replacement character.
DecodeByte(b, encoding) ==
    IF b < 128 THEN b
    ELSE IF encoding = "latin1" THEN b
    ELSE 65533

RECURSIVE Decode(_, _)
Decode(bytes, encoding) ==
    IF Len(bytes) = 0 THEN <<>>
    ELSE <<DecodeByte(bytes[1], encoding)>> \o Decode(Tail(bytes), encoding)

\* Mutant: the decoded text is attached before the validator is asked.
DownloadSubtitleAttachFirst(sess, cl, subtitle, resp) ==
    IF sess = None
    THEN [exc |-> "AttributeError", subtitle |-> subtitle, reqs |-> <<>>]
    ELSE LET rq == <<Request(sess, cl, [api |-> "download", link |-> subtitle.download_link])>>
             got == [subtitle EXCEPT
                       !.content = Some(Decode(resp.body.bytes, resp.body.encoding[1]))]
         IN  IF resp.timeout
             THEN [exc |-> "ProviderNotAvailable", subtitle |-> subtitle, reqs |-> rq]
             ELSE IF resp.status = 429
             THEN [exc |-> "ProviderNotAvailable", subtitle |-> subtitle, reqs |-> rq]
             ELSE IF resp.status # 200
             THEN [exc |-> "ProviderError", subtitle |-> subtitle, reqs |-> rq]
             ELSE IF resp.body.encoding = None
             THEN [exc |-> "TypeError", subtitle |-> subtitle, reqs |-> rq]
             ELSE IF ~resp.body.valid
             THEN [exc |-> "InvalidSubtitle", subtitle |-> got, reqs |-> rq]
             ELSE [exc |-> "none", subtitle |-> got, reqs |-> rq]

\* Mutant: the download goes through a context of its own (requests.get)
\* instead of self.session.
DownloadSubtitleOwnContext(sess, cl, subtitle, resp) ==
    LET rq == <<[ctx |-> 0, closed |-> FALSE,
                 url |-> [api |-> "download", link |-> subtitle.download_link]]>>
    IN  IF resp.timeout \/ resp.status = 429
        THEN [exc |-> "ProviderNotAvailable", subtitle |-> subtitle, reqs |-> rq]
        ELSE IF resp.status # 200
        THEN [exc |-> "ProviderError", subtitle |-> subtitle, reqs |-> rq]
        ELSE IF resp.body.encoding = None
        THEN [exc |-> "TypeError", subtitle |-> subtitle, reqs |-> rq]
        ELSE IF ~resp.body.valid
        THEN [exc |-> "InvalidSubtitle", subtitle |-> subtitle, reqs |-> rq]
        ELSE [exc |-> "none",
              subtitle |-> [subtitle EXCEPT
                              !.content = Some(Decode(resp.body.bytes, resp.body.encoding[1]))],
              reqs |-> rq]

\* BierDopjeProvider.download_subtitle.  resp.body is the payload: its bytes,
\* the encoding charade detects (None when it detects none) and the verdict
\* of is_valid_subtitle on the decoded text.
DownloadSubtitle(sess, cl, subtitle, resp) ==
    IF sess = None
    THEN [exc |-> "AttributeError", subtitle |-> subtitle, reqs |-> <<>>]
    ELSE LET rq == <<Request(sess, cl, [api |-> "download", link |-> subtitle.download_link])>>
         IN  IF resp.timeout
             THEN [exc |-> "ProviderNotAvailable", subtitle |-> subtitle, reqs |-> rq]
             ELSE IF resp.status = 429
             THEN [exc |-> "ProviderNotAvailable", subtitle |-> subtitle, reqs |-> rq]
             ELSE IF resp.status # 200
             THEN [exc |-> "ProviderError", subtitle |-> subtitle, reqs |-> rq]
             ELSE IF resp.body.encoding = None
             THEN [exc |-> "TypeError", subtitle |-> subtitle, reqs |-> rq]
             ELSE IF ~resp.body.valid
             THEN [exc |-> "InvalidSubtitle", subtitle |-> subtitle, reqs |-> rq]
             ELSE [exc |-> "none",
                   subtitle |-> [subtitle EXCEPT
                                   !.content = Some(Decode(resp.body.bytes, resp.body.encoding[1]))],
                   reqs |-> rq]

\* ---------------------------------------------------------------- match scorer
\* Mutant: the year is compared like the other fields, only when present.
DirectMatchesYearGuarded(subtitle, video) ==
    (IF TruthyInt(video.tvdb_id) /\ subtitle.tvdb_id = video.tvdb_id THEN {"tvdb_id"} ELSE {})
    \cup (IF TruthyStr(video.series) /\ subtitle.series = video.series THEN {"series"} ELSE {})
    \cup (IF TruthyInt(video.season) /\ subtitle.season = video.season THEN {"season"} ELSE {})
    \cup (IF TruthyInt(video.episode) /\ subtitle.episode = video.episode THEN {"episode"} ELSE {})
    \cup (IF TruthyInt(video.year) /\ subtitle.year = video.year THEN {"year"} ELSE {})

\* The direct comparisons of compute_matches.
DirectMatches(subtitle, video) ==
    (IF TruthyInt(video.tvdb_id) /\ subtitle.tvdb_id = video.tvdb_id THEN {"tvdb_id"} ELSE {})
    \cup (IF TruthyStr(video.series) /\ subtitle.series = video.series THEN {"series"} ELSE {})
    \cup (IF TruthyInt(video.season) /\ subtitle.season = video.season THEN {"season"} ELSE {})
    \cup (IF TruthyInt(video.episode) /\ subtitle.episode = video.episode THEN {"episode"} ELSE {})
    \cup (IF subtitle.year = video.year THEN {"year"} ELSE {})

\* BierDopjeSubtitle.compute_matches; guessed is what compute_guess_matches
\* returns for the guess made from the candidate's filename.
ComputeMatches(subtitle, video, guessed) == DirectMatches(subtitle, video) \cup guessed

\* ---------------------------------------------------------------- bounds
MaxCtx == 2

MaxLangs == 2

MaxResults == 3

MaxClose == 2

MaxTime == 3

\* ---------------------------------------------------------------- state
NoInput == [kind |-> "none"]

InitWith(Inputs) ==
    /\ session = None
    /\ created = 0
    /\ closes = <<>>
    /\ lifecycle = "new"
    /\ cache = <<>>
    /\ returned = <<>>
    /\ now = 0
    /\ held = None
    /\ inp \in Inputs
    /\ last = [op |-> "construct", exc |-> "none", reqs |-> <<>>]

\* The provider after construction.
Init == InitWith({NoInput})

\* The host's call protocol: initialize first, terminate last, once each.
LifecycleAfter(lc, op) ==
    IF op = "initialize" THEN (IF lc = "new" THEN "open" ELSE "misused")
    ELSE IF op = "terminate" THEN (IF lc = "open" THEN "closed" ELSE "misused")
    ELSE (IF lc = "open" THEN "open" ELSE "misused")

\* The value a key's window holds at time t, if a window is running.
Live(ret, t, key) ==
    IF key \in DOMAIN ret /\ t - ret[key].ct < ExpirationTime THEN Some(ret[key].val) ELSE None

\* A normal return opens the key's window unless one is running.
ReturnedAfter(ret, t, calls) ==
    IF Len(calls) = 0 \/ calls[1].exc # "none" THEN ret
    ELSE LET key == CacheKey(calls[1].series, calls[1].year)
         IN  IF Live(ret, t, key) # None THEN ret
             ELSE (key :> [val |-> calls[1].val, ct |-> t]) @@ ret

\* BierDopjeProvider.initialize: a new requests.Session replaces self.session.
Initialize ==
    /\ created < MaxCtx
    /\ created' = created + 1
    /\ session' = Some(created + 1)
    /\ closes' = Append(closes, 0)
    /\ lifecycle' = LifecycleAfter(lifecycle, "initialize")
    /\ last' = [op |-> "initialize", exc |-> "none", reqs |-> <<>>]
    /\ UNCHANGED <<cache, returned, now, held, inp>>

\* BierDopjeProvider.terminate: self.session.close()
Terminate ==
    /\ session # None => closes[session[1]] < MaxClose
    /\ closes' = IF session = None THEN closes
                  ELSE [closes EXCEPT ![session[1]] = @ + 1]
    /\ lifecycle' = LifecycleAfter(lifecycle, "terminate")
    /\ last' = [op |-> "terminate",
                 exc |-> IF session = None THEN "AttributeError" ELSE "none",
                 reqs |-> <<>>]
    /\ UNCHANGED <<session, created, cache, returned, now, held, inp>>

\* Time passes.
Tick ==
    /\ now < MaxTime
    /\ now' = now + 1
    /\ UNCHANGED <<session, created, closes, lifecycle, cache, returned, held, inp, last>>

\* A direct call of get.
GetStep(Urls, Resps) ==
    \E url \in Urls, resp \in Resps :
      \E g \in {Get(session, closes, url, resp)} :
          /\ last' = [op |-> "get", exc |-> g.exc, reqs |-> g.reqs, resp |-> resp,
                       root |-> g.root]
          /\ lifecycle' = LifecycleAfter(lifecycle, "get")
          /\ UNCHANGED <<session, created, closes, cache, returned, now, held, inp>>

\* A direct call of find_show_id.
FindShowIdStep(SeriesSet, Years, Resps) ==
    \E series \in SeriesSet, year \in Years, resp \in Resps :
      \E f \in {FindShowId(session, closes, cache, now, series, year, resp)} :
          /\ cache' = f.cache
          /\ returned' = ReturnedAfter(returned, now,
                                       <<[series |-> series, year |-> year, hit |-> f.hit,
                                          exc |-> f.exc, val |-> f.val]>>)
          /\ last' = [op |-> "find_show_id", exc |-> f.exc, reqs |-> f.reqs,
                       series |-> series, year |-> year, resp |-> resp, val |-> f.val,
                       live |-> Live(returned, now, CacheKey(series, year))]
          /\ lifecycle' = LifecycleAfter(lifecycle, "find_show_id")
          /\ UNCHANGED <<session, created, closes, now, held, inp>>

\* A call of query.
QueryStep(Langs, Seasons, Episodes, Tvdbs, SeriesSet, Years, FResps, LResps) ==
    \E language \in Langs, season \in Seasons, episode \in Episodes, tvdb_id \in Tvdbs,
       series \in SeriesSet, year \in Years, fresp \in FResps, lresp \in LResps :
      \E q \in {Query(session, closes, cache, now, language, season, episode,
                      tvdb_id, series, year, fresp, lresp)} :
          /\ cache' = q.cache
          /\ returned' = ReturnedAfter(returned, now, q.resolver)
          /\ last' = [op |-> "query", exc |-> q.exc, reqs |-> q.reqs,
                       language |-> language, season |-> season, episode |-> episode,
                       tvdb_id |-> tvdb_id, series |-> series, year |-> year,
                       result |-> q.result, resolver |-> q.resolver,
                       cacheSame |-> (q.cache = cache)]
          /\ lifecycle' = LifecycleAfter(lifecycle, "query")
          /\ UNCHANGED <<session, created, closes, now, held, inp>>

RECURSIVE ReturnedAfterAll(_, _, _)
ReturnedAfterAll(ret, t, queries) ==
    IF Len(queries) = 0 THEN ret
    ELSE ReturnedAfterAll(ReturnedAfter(ret, t, queries[1].resolver), t, Tail(queries))

\* A call of list_subtitles.
ListSubtitlesStep(Videos, LangSeqs, FRespSeqs, LRespSeqs) ==
    \E video \in Videos, languages \in LangSeqs :
      \E fresps \in FRespSeqs, lresps \in LRespSeqs :
        \E l \in {ListSubtitles(session, closes, cache, now, video, languages, fresps, lresps)} :
            /\ cache' = l.cache
            /\ returned' = ReturnedAfterAll(returned, now, l.queries)
            /\ last' = [op |-> "list_subtitles", exc |-> l.exc, reqs |-> l.reqs,
                         video |-> video, languages |-> languages, lresps |-> lresps,
                         result |-> l.result, queries |-> l.queries]
            /\ lifecycle' = LifecycleAfter(lifecycle, "list_subtitles")
            /\ UNCHANGED <<session, created, closes, now, held, inp>>

\* The candidates the last query or list_subtitles returned.
LastCandidates ==
    IF last.op \in {"query", "list_subtitles"}
    THEN {last.result[i] : i \in 1..Len(last.result)}
    ELSE {}

\* A call of download_subtitle on a fresh candidate or on the held one.
DownloadSubtitleStep(Fresh, Resps) ==
    \E subtitle \in Fresh \cup {held[i] : i \in 1..Len(held)}, resp \in Resps :
      \E d \in {DownloadSubtitle(session, closes, subtitle, resp)} :
          /\ held' = Some(d.subtitle)
          /\ last' = [op |-> "download_subtitle", exc |-> d.exc, reqs |-> d.reqs,
                       resp |-> resp, before |-> subtitle]
          /\ lifecycle' = LifecycleAfter(lifecycle, "download_subtitle")
          /\ UNCHANGED <<session, created, closes, cache, returned, now, inp>>

\* A call of compute_matches.
ComputeMatchesStep(Subtitles, Videos, Guesses) ==
    \E subtitle \in Subtitles, video \in Videos, guessed \in Guesses :
      /\ last' = [op |-> "compute_matches", exc |-> "none", reqs |-> <<>>,
                   subtitle |-> subtitle, video |-> video, guessed |-> guessed,
                   matches |-> ComputeMatches(subtitle, video, guessed)]
      /\ UNCHANGED <<session, created, closes, lifecycle, cache, returned, now, held, inp>>

\* ---------------------------------------------------------------- inputs
sLost == <<"l", "o", "s", "t">>

sLostMixed == <<"L", "o", "s", "t">>

sLostUpper == <<"L", "O", "S", "T">>

sLost2004 == <<"L", "o", "s", "t", " ", "(", "2", "0", "0", "4", ")">>

sLost2005 == <<"l", "o", "s", "t", " ", "(", "2", "0", "0", "5", ")">>

sLostGirl == <<"L", "o", "s", "t", " ", "G", "i", "r", "l">>

Languages == {"eng", "nld"}

SubEntry(filename, link) == [filename |-> filename, downloadlink |-> link]

Entry1 == SubEntry("lost.s01e01.720p", "http://dl/1")

Entry2 == SubEntry("lost.s01e01.hdtv", "http://dl/2")

NotFound == Response(200, Document(None, "false", <<>>))

Found(results) == Response(200, Document(None, "true", results))

RateLimited == Response(429, MalformedBody)

\* A video as list_subtitles reads it.
Video(tvdb_id, series, season, episode, year) ==
    [tvdb_id |-> tvdb_id, series |-> series, season |-> season,
     episode |-> episode, year |-> year]

\* A payload of the download link.
Payload(bytes, encoding, valid) == [bytes |-> bytes, encoding |-> encoding, valid |-> valid]

\* ---------------------------------------------------------------- the provider
BasicFind == {NotFound, Found(<<ShowResult(sLost2004, <<"1">>), ShowResult(sLost, <<"2">>)>>)}

BasicLookup == {TimeoutResponse, NotFound, Found(<<Entry1>>)}

BasicDownload == {RateLimited,
                  Response(200, Payload(<<72, 233>>, Some("latin1"), TRUE)),
                  Response(200, Payload(<<72, 233>>, Some("ascii"), FALSE))}

GetCall == GetStep({[api |-> "FindShowByName", series |-> sLost]}, {RateLimited, NotFound})

FindShowIdCall == FindShowIdStep({sLost}, {None}, BasicFind)

QueryCall == QueryStep({"eng"}, {Some(1)}, {Some(1)}, {None, Some(7)}, {None, Some(sLostMixed)},
                       {None}, BasicFind, BasicLookup)

ListSubtitlesCall ==
    ListSubtitlesStep({Video(None, Some(sLostMixed), Some(1), Some(1), None),
                       Video(Some(7), Some(sLostMixed), Some(1), Some(1), None)},
                      {<<"eng", "nld">>},
                      [1..2 -> {Found(<<ShowResult(sLost, <<"2">>)>>)}],
                      [1..2 -> {NotFound, Found(<<Entry1>>)}])

DownloadSubtitleCall == DownloadSubtitleStep(LastCandidates, BasicDownload)

Next ==
    \/ Initialize
    \/ Terminate
    \/ GetCall
    \/ FindShowIdCall
    \/ QueryCall
    \/ ListSubtitlesCall
    \/ DownloadSubtitleCall

Spec == Init /\ [][Next]_vars

\* C10 as stated: over any sequence of operations the context is created
\* once, never released twice and never used after its release.
C10_AnySequence ==
    /\ created <= 1
    /\ \A c \in 1..created : closes[c] <= 1
    /\ \A i \in 1..Len(last.reqs) : ~last.reqs[i].closed

\* C10 amended: every request goes through the context the latest initialize
\* created and none is issued before the first initialize; when the host
\* calls initialize once, first, and terminate once, last, the context is
\* created once, released exactly once and never used after its release.
C10_HostLifecycle ==
    /\ (session = None) = (created = 0)
    /\ session # None => session[1] = created
    /\ \A i \in 1..Len(last.reqs) : session # None /\ last.reqs[i].ctx = session[1]
    /\ lifecycle = "new" => created = 0
    /\ lifecycle = "open" =>
          /\ created = 1 /\ closes[1] = 0
          /\ \A i \in 1..Len(last.reqs) : ~last.reqs[i].closed
    /\ lifecycle = "closed" => created = 1 /\ closes[1] = 1 /\ last.reqs = <<>>

\* A download succeeded through the context and the host then terminated.
C10_Witness ==
    /\ lifecycle = "closed"
    /\ closes = <<1>>
    /\ held # None /\ held[1].content # None

\* ---------------------------------------------------------------- the resolver and its cache
ResolverResponses ==
    {RateLimited, NotFound,
     Found(<<ShowResult(sLost2004, <<"1">>), ShowResult(sLost, <<"2">>)>>),
     Found(<<ShowResult(sLostGirl, <<"3">>)>>)}

FindShowIdCached == FindShowIdStep({sLost}, {None, Some(2004)}, ResolverResponses)

NextResolver ==
    \/ Initialize
    \/ FindShowIdCached
    \/ Tick

SpecResolver == Init /\ [][NextResolver]_vars

\* C1: a find_show_id call made while the key's expiration window is
\* running returns the value the window began with (an identifier or None)
\* and issues no request; a call issues a request only when no window is
\* running for its key, and then at most one.
C1_CachedWithinWindow ==
    last.op = "find_show_id" =>
      /\ last.live # None =>
            /\ last.exc = "none"
            /\ last.val = last.live[1]
            /\ last.reqs = <<>>
      /\ last.reqs # <<>> => last.live = None /\ Len(last.reqs) = 1
      /\ returned = cache

\* A call inside the window of a cached "not found" returned None without a
\* request although the service would now have answered with results.
C1_Witness ==
    /\ last.op = "find_show_id"
    /\ last.live = Some(None)
    /\ last.resp = Found(<<ShowResult(sLost2004, <<"1">>), ShowResult(sLost, <<"2">>)>>)
    /\ last.val = None
    /\ last.reqs = <<>>
    /\ now > 0

\* ---------------------------------------------------------------- the selection policy
Catalog ==
    {ShowResult(sLost2004, <<"1">>), ShowResult(sLost, <<"2">>), ShowResult(sLostUpper, <<"3">>),
     ShowResult(sLostGirl, <<"4">>), ShowResult(sLost2005, <<"1", "5">>)}

ResultLists == UNION {[1..n -> Catalog] : n \in 0..MaxResults}

SelectInputs ==
    [kind : {"find_show_id"}, series : {sLost, sLostMixed},
     year : {None, Some(2004), Some(2005)},
     resp : {NotFound} \cup {Found(rs) : rs \in ResultLists}]

FindShowIdGiven == FindShowIdStep({inp.series}, {inp.year}, {inp.resp})

NextSelect ==
    \/ Initialize
    \/ FindShowIdGiven

SpecSelect == InitWith(SelectInputs) /\ [][NextSelect]_vars

\* The positions of a result list whose lowercased show name is name.
Named(rs, name) == {i \in 1..Len(rs) : Lower(rs[i].showname) = name}

Least(S) == CHOOSE i \in S : \A j \in S : i <= j

\* C8: on a non-empty result list find_show_id returns the identifier of
\* the first result named "<series> (<year>)" when a year is given and such
\* a result exists, else of the first result named as the bare series, else
\* of the first result; on the lists of "Lost (2004)" (1) and "lost" (2),
\* in either order, ("lost", 2004) gives 1 and ("lost", None) gives 2; a
\* response that signals no results gives None without an exception.
C8_SelectionPriority ==
    (last.op = "find_show_id" /\ Len(last.reqs) = 1) =>
      LET rs == last.resp.body.results
          qualified == IF last.year = None THEN {}
                       ELSE Named(rs, last.series \o <<" ", "(">> \o
                                      (IF last.year[1] = 2004 THEN <<"2", "0", "0", "4">>
                                       ELSE <<"2", "0", "0", "5">>) \o <<")">>)
          bare == Named(rs, last.series)
          pick == IF qualified # {} THEN Least(qualified)
                  ELSE IF bare # {} THEN Least(bare)
                  ELSE 1
          lost2004 == ShowResult(sLost2004, <<"1">>)
          lost == ShowResult(sLost, <<"2">>)
      IN  /\ last.resp = NotFound => last.exc = "none" /\ last.val = None
          /\ (last.resp # NotFound /\ Len(rs) > 0) =>
                /\ last.exc = "none"
                /\ last.val = Some(ParseInt(rs[pick].showid))
          /\ (rs \in {<<lost2004, lost>>, <<lost, lost2004>>} /\ last.series = sLost) =>
                /\ last.year = Some(2004) => last.val = Some(1)
                /\ last.year = None => last.val = Some(2)

\* The year-qualified result is selected although a bare match precedes it.
C8_Witness ==
    /\ last.op = "find_show_id"
    /\ Len(last.reqs) = 1
    /\ last.series = sLost
    /\ last.year = Some(2004)
    /\ last.resp = Found(<<ShowResult(sLost, <<"2">>), ShowResult(sLost2004, <<"1">>)>>)
    /\ last.val = Some(1)

\* ---------------------------------------------------------------- the query engine
QueryFind ==
    {RateLimited, NotFound,
     Found(<<ShowResult(sLost2004, <<"1">>), ShowResult(sLost, <<"2">>)>>)}

QueryLookups == {TimeoutResponse, NotFound, Found(<<Entry1, Entry2>>)}

QueryVaried ==
    QueryStep(Languages, {Some(1)}, {Some(2)}, {None, Some(0), Some(7)},
              {None, Some(sLostMixed)}, {None, Some(2004)}, QueryFind, QueryLookups)

ListSubtitlesOfVideo ==
    ListSubtitlesStep({Video(Some(7), Some(sLostMixed), Some(1), Some(2), Some(2004)),
                       Video(None, Some(sLostMixed), Some(1), Some(2), Some(2004))},
                      {<<"nld", "eng">>},
                      [1..2 -> {NotFound, Found(<<ShowResult(sLost, <<"2">>)>>)}],
                      [1..2 -> {NotFound, Found(<<Entry1>>)}])

NextQuery ==
    \/ Initialize
    \/ QueryVaried
    \/ ListSubtitlesOfVideo

SpecQuery == Init /\ [][NextQuery]_vars

\* The lookup request query builds for a show id.
IsLookup(rq, language, season, episode, showid, istvdbid) ==
    rq.url = [api |-> "GetAllSubsFor", showid |-> showid, season |-> season,
              episode |-> episode,
              language |-> (IF language = "eng" THEN "en" ELSE "nl"),
              istvdbid |-> istvdbid]

\* C2: a query given a tvdb_id, with or without a series, makes no
\* find_show_id call and leaves the cache alone, and issues exactly one
\* request: the lookup for that tvdb_id with istvdbid "true"; so does every
\* query list_subtitles makes for a video that has a tvdb_id.
C2_ExternalIdBypassesResolver ==
    /\ (last.op = "query" /\ last.tvdb_id # None /\ session # None) =>
          /\ last.resolver = <<>>
          /\ last.cacheSame
          /\ Len(last.reqs) = 1
          /\ IsLookup(last.reqs[1], last.language, last.season, last.episode,
                      last.tvdb_id[1], "true")
    /\ (last.op = "list_subtitles" /\ last.video.tvdb_id # None /\ session # None) =>
          \A i \in 1..Len(last.queries) :
            /\ last.queries[i].resolver = <<>>
            /\ Len(last.queries[i].reqs) = 1
            /\ IsLookup(last.queries[i].reqs[1], last.languages[i], last.video.season,
                        last.video.episode, last.video.tvdb_id[1], "true")

\* A query given both a tvdb_id and a series returned candidates from its
\* single lookup.
C2_Witness ==
    /\ last.op = "query"
    /\ last.tvdb_id = Some(7) /\ last.series = Some(sLostMixed)
    /\ Len(last.reqs) = 1
    /\ Len(last.result) = 2

\* C3: a query without tvdb_id whose series the resolver resolves to None
\* returns an empty list, raises nothing and issues no lookup request; its
\* only request, on a cache miss, is the resolver's search.
C3_UnresolvedShowIsEmpty ==
    (/\ last.op = "query" /\ last.tvdb_id = None /\ last.series # None
     /\ Len(last.resolver) = 1
     /\ last.resolver[1].exc = "none" /\ last.resolver[1].val = None) =>
      /\ last.exc = "none"
      /\ last.result = <<>>
      /\ \A i \in 1..Len(last.reqs) : last.reqs[i].url.api = "FindShowByName"
      /\ Len(last.reqs) = (IF last.resolver[1].hit THEN 0 ELSE 1)

\* The resolver's search found nothing and the query ended empty after it.
C3_Witness ==
    /\ last.op = "query"
    /\ last.tvdb_id = None /\ last.series = Some(sLostMixed)
    /\ Len(last.resolver) = 1 /\ last.resolver[1].val = None
    /\ ~last.resolver[1].hit
    /\ Len(last.reqs) = 1
    /\ last.result = <<>> /\ last.exc = "none"

\* What C4 says of a call with neither argument.
C4_NeitherFails ==
    (last.op = "query" /\ last.tvdb_id = None /\ last.series = None) =>
      /\ last.exc = "ValueError"
      /\ last.reqs = <<>>
      /\ last.resolver = <<>>
      /\ last.cacheSame

\* C4 as stated: exactly one of tvdb_id and series must be supplied, so a
\* call with both is as much a contract violation as a call with neither
\* and does not return normally.
C4_ExactlyOne ==
    /\ C4_NeitherFails
    /\ (last.op = "query" /\ last.tvdb_id # None /\ last.series # None) =>
          last.exc # "none"

\* C4 amended: at least one of tvdb_id and series must be supplied; a call
\* with neither raises ValueError before any request or resolver call and
\* is not turned into an empty result; a call with both is accepted (no
\* ValueError) and served by the tvdb_id.
C4_AtLeastOne ==
    /\ C4_NeitherFails
    /\ (last.op = "query" /\ last.tvdb_id # None /\ last.series # None) =>
          last.exc # "ValueError" /\ last.resolver = <<>>

\* A query with neither argument failed on an initialized provider.
C4_Witness ==
    /\ last.op = "query"
    /\ last.tvdb_id = None /\ last.series = None
    /\ session # None
    /\ last.exc = "ValueError"

\* ---------------------------------------------------------------- list_subtitles
ListVideos ==
    {Video(tvdb_id, series, Some(1), Some(2), None) :
       tvdb_id \in {None, Some(7)}, series \in {None, Some(sLostMixed)}}

LanguageLists == UNION {[1..n -> Languages] : n \in 0..MaxLangs}

ListFind == {NotFound, Found(<<ShowResult(sLost, <<"2">>)>>)}

ListLookups == {TimeoutResponse, NotFound, Found(<<Entry1>>), Found(<<Entry2, Entry1>>)}

ListInputs ==
    [kind : {"list_subtitles"}, video : ListVideos, languages : LanguageLists,
     fresps : [1..MaxLangs -> ListFind], lresps : [1..MaxLangs -> ListLookups]]

ListSubtitlesGiven ==
    ListSubtitlesStep({inp.video}, {inp.languages}, {inp.fresps}, {inp.lresps})

NextList ==
    \/ Initialize
    \/ ListSubtitlesGiven

SpecList == InitWith(ListInputs) /\ [][NextList]_vars

RECURSIVE Flatten(_)
Flatten(seqs) == IF Len(seqs) = 0 THEN <<>> ELSE seqs[1] \o Flatten(Tail(seqs))

\* The candidates the i-th query of the last list_subtitles owes its caller:
\* one per entry of the lookup response, in response order, in the i-th
\* language; none when no lookup was issued or it signalled no results.
Owed(i) ==
    LET q == last.queries[i]
        entries == last.lresps[i].body.results
        looked == \E k \in 1..Len(q.reqs) : q.reqs[k].url.api = "GetAllSubsFor"
    IN  IF looked /\ last.lresps[i].body.status = "true"
        THEN [j \in 1..Len(entries) |->
                [language |-> last.languages[i], season |-> last.video.season,
                 episode |-> last.video.episode, tvdb_id |-> last.video.tvdb_id,
                 series |-> last.video.series, year |-> last.video.year,
                 filename |-> entries[j].filename,
                 download_link |-> entries[j].downloadlink, content |-> None]]
        ELSE <<>>

\* C7: list_subtitles queries the languages in iteration order, one query
\* each, and what it returns is the concatenation of the queries' results
\* in that order, each candidate in the language of its query; a query's
\* exception ends the call with that exception after the queries made so far.
C7_OneQueryPerLanguage ==
    last.op = "list_subtitles" =>
      LET qs == last.queries
      IN  /\ Len(qs) <= Len(last.languages)
          /\ \A i \in 1..Len(qs) : qs[i].language = last.languages[i]
          /\ \A i \in 1..(Len(qs) - 1) : qs[i].exc = "none"
          /\ last.exc = "none" =>
                /\ Len(qs) = Len(last.languages)
                /\ last.result = Flatten([i \in 1..Len(qs) |-> Owed(i)])
          /\ last.exc # "none" => Len(qs) >= 1 /\ qs[Len(qs)].exc = last.exc

\* Two languages, each with candidates of its own, came back grouped.
C7_Witness ==
    /\ last.op = "list_subtitles"
    /\ last.exc = "none"
    /\ last.languages = <<"nld", "eng">>
    /\ Len(last.queries) = 2
    /\ Len(last.queries[1].result) = 2 /\ Len(last.queries[2].result) = 1
    /\ Len(last.result) = 3
    /\ last.result[1].language = "nld" /\ last.result[3].language = "eng"

\* ---------------------------------------------------------------- status classification and download
ApiBodies ==
    {MalformedBody, Document(Some("error"), "true", <<>>), Document(None, "false", <<>>),
     Document(None, "true", <<ShowResult(sLost, <<"2">>)>>)}

TransportResponses ==
    {TimeoutResponse} \cup {Response(st, body) : st \in {200, 429, 404, 500}, body \in ApiBodies}

DownloadResponses ==
    {TimeoutResponse} \cup
    {Response(st, Payload(<<72, 233>>, enc, valid)) :
       st \in {200, 429, 404}, enc \in {None, Some("ascii"), Some("latin1")},
       valid \in BOOLEAN}

FreshCandidates ==
    {BierDopjeSubtitle("eng", Some(1), Some(2), Some(7), Some(sLostMixed), Some(2004),
                       "lost.s01e02.720p", "http://dl/1")}

GetAnyStatus == GetStep({[api |-> "FindShowByName", series |-> sLost]}, TransportResponses)

FindShowIdAnyStatus == FindShowIdStep({sLost}, {None}, TransportResponses)

DownloadAnyStatus == DownloadSubtitleStep(FreshCandidates, DownloadResponses)

NextTransport ==
    \/ Initialize
    \/ GetAnyStatus
    \/ FindShowIdAnyStatus
    \/ DownloadAnyStatus

SpecTransport == Init /\ [][NextTransport]_vars

\* C5: whatever the body, a response with status 429 to the request of get
\* (also when find_show_id made the call) or of download_subtitle raises
\* ProviderNotAvailable, and one with another status than 200 and 429
\* raises ProviderError; the body of such a response is never parsed.
C5_StatusClassification ==
    (/\ last.op \in {"get", "find_show_id", "download_subtitle"}
     /\ Len(last.reqs) = 1
     /\ ~last.resp.timeout) =>
      /\ last.resp.status = 429 => last.exc = "ProviderNotAvailable"
      /\ last.resp.status \notin {200, 429} => last.exc = "ProviderError"
      /\ last.resp.status # 200 => last.exc \notin {"ParseError", "TypeError", "InvalidSubtitle"}

\* A 429 whose body carries an error message was reported as unavailability.
C5_Witness ==
    /\ last.op = "get"
    /\ Len(last.reqs) = 1
    /\ last.resp = Response(429, Document(Some("error"), "true", <<>>))
    /\ last.exc = "ProviderNotAvailable"

\* C6: download_subtitle changes the candidate only on a 200 response whose
\* decoded text the validator accepts, and then only its content, which
\* becomes the decoded text; a rejected payload raises InvalidSubtitle and,
\* like a timeout, a 429 and any other status, leaves the candidate as it was.
C6_ContentOnlyOnSuccess ==
    last.op = "download_subtitle" =>
      LET before == last.before
          after == held[1]
          ok == /\ ~last.resp.timeout /\ last.resp.status = 200
                /\ last.resp.body.valid /\ last.resp.body.encoding # None
      IN  /\ last.exc # "none" => after = before
          /\ last.exc = "none" =>
                /\ ok
                /\ after = [before EXCEPT !.content = after.content]
                /\ after.content = Some(IF last.resp.body.encoding = Some("latin1")
                                         THEN <<72, 233>> ELSE <<72, 65533>>)
          /\ (session # None /\ ok) => last.exc = "none"
          /\ (/\ session # None /\ ~last.resp.timeout /\ last.resp.status = 200
              /\ last.resp.body.encoding # None /\ ~last.resp.body.valid) =>
                last.exc = "InvalidSubtitle"

\* The validator rejected the payload of a candidate that had no content.
C6_Witness ==
    /\ last.op = "download_subtitle"
    /\ last.exc = "InvalidSubtitle"
    /\ last.before.content = None
    /\ held[1].content = None

\* ---------------------------------------------------------------- the match scorer
MatchSubtitles ==
    {[BierDopjeSubtitle("eng", season, episode, tvdb_id, series, year,
                        "lost.s01e02.720p", "http://dl/1") EXCEPT !.content = None] :
       season \in {None, Some(0), Some(1)}, episode \in {Some(2), Some(3)},
       tvdb_id \in {None, Some(0), Some(7)}, series \in {None, Some(sLostMixed)},
       year \in {None, Some(2004)}}

MatchVideos ==
    {Video(tvdb_id, series, season, Some(2), year) :
       tvdb_id \in {None, Some(0), Some(7)}, series \in {None, Some(<<>>), Some(sLostMixed)},
       season \in {None, Some(0), Some(1)}, year \in {None, Some(2004), Some(2005)}}

MatchInputs == [kind : {"compute_matches"}, subtitle : MatchSubtitles, video : MatchVideos]

\* What compute_guess_matches may return.
GuessTags == {"season", "year", "release_group"}

ComputeMatchesGiven == ComputeMatchesStep({inp.subtitle}, {inp.video}, SUBSET GuessTags)

NextMatch == ComputeMatchesGiven

SpecMatch == InitWith(MatchInputs) /\ [][NextMatch]_vars

\* C9: compute_matches has the year tag whenever the candidate's year equals
\* the video's, both None included; apart from what the filename guess adds,
\* it has the tvdb_id, series, season and episode tags exactly when the
\* video's field is truthy and equal to the candidate's, and the year tag
\* only when the years are equal.
C9_YearUnconditional ==
    last.op = "compute_matches" =>
      LET c == last.subtitle
          v == last.video
          m == last.matches
          unguessed(t) == t \notin last.guessed
      IN  /\ c.year = v.year => "year" \in m
          /\ unguessed("year") => (("year" \in m) = (c.year = v.year))
          /\ \A t \in {"tvdb_id", "season", "episode"} :
                /\ (v[t] \notin {None, Some(0)} /\ c[t] = v[t]) => t \in m
                /\ unguessed(t) =>
                      ((t \in m) = (v[t] \notin {None, Some(0)} /\ c[t] = v[t]))
          /\ ("series" \in m) = (v.series \notin {None, Some(<<>>)} /\ c.series = v.series)
          /\ last.guessed \subseteq m

\* Neither has a year or a tvdb_id: the year tag is there, the tvdb_id tag not.
C9_Witness ==
    /\ last.op = "compute_matches"
    /\ last.subtitle.year = None /\ last.video.year = None
    /\ last.subtitle.tvdb_id = None /\ last.video.tvdb_id = None
    /\ last.guessed = {}
    /\ "year" \in last.matches
    /\ "tvdb_id" \notin last.matches
====
